---- MODULE Spec2Model ----
(***************************************************************************)
(* State-machine model of the numerical routines of the repository:        *)
(*   src/stochastic/fbm.py       covariance_levy_fbm, simulate_fbm         *)
(*   src/stochastic/brownian.py  simulate_brownian_motion, _bridge,        *)
(*                               _levy_construction, Schauder functions    *)
(*   src/stats/gaussian_mixtures.py  gaussian_mixture_pdf                  *)
(*                                                                         *)
(* The only state shared between calls is numpy's process-wide random      *)
(* generator (np.random.seed / np.random.normal).  Each action is one call *)
(* of one routine; the variables hold the generator and the arguments and  *)
(* result of the last call of each family of routines.                     *)
(*                                                                         *)
(* Number representations                                                  *)
(*   - a normal variate is a small integer, a fixed function of the seed   *)
(*     and of its index in the stream (Normal);                            *)
(*   - a grid time k*T/n is kept as its numerator over the denominator n;  *)
(*   - a float the code obtains through pow / hyp2f1 is kept as its class  *)
(*     (nan, zero, pos, neg, pinf, ninf) with IEEE-754 multiplication;     *)
(*   - Hurst exponents are in tenths (3 is H = 0.3), mixture weights too.  *)
(***************************************************************************)
EXTENDS Integers, Sequences, FiniteSets, TLC

VARIABLES
    rng,              \* process-wide generator: [seed, pos] (pos variates drawn since seeding)
    lapackChecksNaN,  \* whether the linked LAPACK potrf tests its pivots for NaN
    call,             \* the last simulator call: routine, arguments, draw stretch
    res,              \* what that call returned or raised
    cov_arg,          \* the matrix simulate_fbm handed to np.linalg.cholesky
    kern,             \* the last direct call of covariance_levy_fbm
    mix               \* the last call of gaussian_mixture_pdf

vars == <<rng, lapackChecksNaN, call, res, cov_arg, kern, mix>>

(***************************************************************************)
(* Bounds of the model.                                                    *)
(***************************************************************************)
MaxSteps == 2        \* n_steps ranges over 1..MaxSteps
MaxPaths == 2        \* n_paths / n_mc ranges over 1..MaxPaths
MaxLevel == 1        \* L of the Levy construction ranges over 0..MaxLevel
MaxDraws == 4        \* unseeded calls are taken while the stream position stays <= MaxDraws
MaxTime == 4         \* direct kernel calls take u, v in 0..MaxTime
TimeDen == 4         \* Levy-construction times are k/TimeDen, k in 0..TimeDen
MaxComponents == 2   \* mixture weights: 1..MaxComponents of them
MaxSamples == 1      \* evaluation points of the mixture density
MaxDens == 1         \* a component density value is in 0..MaxDens

DefaultSeed == 1234  \* seed=1234 default of the Brownian routines

None == -1           \* stands for seed=None
Seeds == {DefaultSeed, 7}
EntropySeeds == {101, 203, 305}    \* what seeding from OS entropy may produce
Hursts == {-1, 0, 3, 5, 7}     \* tenths: -0.1 and 0 are outside (0,1)

RECURSIVE SumSeq(_)
SumSeq(s) == IF s = <<>> THEN 0 ELSE Head(s) + SumSeq(Tail(s))

Min(a, b) == IF a <= b THEN a ELSE b
Max(a, b) == IF a >= b THEN a ELSE b

RECURSIVE Pow2(_)
Pow2(j) == IF j = 0 THEN 1 ELSE 2 * Pow2(j - 1)

(***************************************************************************)
(* IEEE-754 classes and their product.                                     *)
(***************************************************************************)
FloatMul(x, y) ==
    IF x = "nan" \/ y = "nan" THEN "nan"
    ELSE IF (x = "zero" /\ y \in {"pinf", "ninf"}) \/ (y = "zero" /\ x \in {"pinf", "ninf"})
         THEN "nan"
    ELSE IF x = "zero" \/ y = "zero" THEN "zero"
    ELSE LET negx == x \in {"neg", "ninf"}
             negy == y \in {"neg", "ninf"}
             inf  == x \in {"pinf", "ninf"} \/ y \in {"pinf", "ninf"}
         IN IF negx = negy THEN (IF inf THEN "pinf" ELSE "pos")
                           ELSE (IF inf THEN "ninf" ELSE "neg")

\* x ** (e/10) for x >= 0
FloatPow(x, e) ==
    IF x > 0 THEN "pos"
    ELSE IF e > 0 THEN "zero"
    ELSE IF e = 0 THEN "pos"
    ELSE "pinf"

\* lo / hi for 0 <= lo <= hi : the class of the quotient and whether it is 1
FloatRatio(lo, hi) ==
    IF hi = 0 THEN "nan"
    ELSE IF lo = 0 THEN "zero"
    ELSE IF lo = hi THEN "one"
    ELSE "frac"

\* hyp2f1(1, 0.5 - H, 1.5 + H, z) : 1 at z = 0, finite and positive inside the
\* unit disc, and at z = 1 finite iff c - a - b = 2H > 0 (else it diverges).
Hyp2f1(H, z) ==
    IF z = "nan" THEN "nan"
    ELSE IF z = "one" /\ H <= 0 THEN "pinf"
    ELSE "pos"

\* (2 * H) / (H + 0.5), for H > -0.5
HurstScale(H) == IF H > 0 THEN "pos" ELSE IF H = 0 THEN "zero" ELSE "neg"

(***************************************************************************)
(* covariance_levy_fbm at one pair of times.  The value is the real number *)
(* the closed form denotes for (lo, hi, H), kept with its float class.     *)
(***************************************************************************)
covariance_levy_fbm(u, v, H) ==
    LET u_max_v == Max(u, v)
        u_min_v == Min(u, v)
        cov == FloatMul(FloatMul(FloatPow(u_min_v, H + 5), FloatPow(u_max_v, H - 5)),
                        Hyp2f1(H, FloatRatio(u_min_v, u_max_v)))
    IN [lo |-> u_min_v, hi |-> u_max_v, H |-> H, cls |-> FloatMul(cov, HurstScale(H))]

(***************************************************************************)
(* numpy's legacy global generator.  After np.random.seed(s) the k-th      *)
(* variate drawn is Normal(s, k).                                          *)
(***************************************************************************)
Normal(seed, i) == ((seed * 3 + i * i + seed * i) % 5) - 2

\* np.random.seed(seed): the generator states it may leave.  seed=None reads fresh
\* OS entropy, which does not give the generator's current seeding again.
np_random_seed(gen, seed) ==
    IF seed = None THEN {[seed |-> e, pos |-> 0] : e \in EntropySeeds \ {gen.seed}}
    ELSE {[seed |-> seed, pos |-> 0]}

\* the seeding call left out: the draws continue the current stream
ReseedNever(gen, seed) == {gen}

\* brownian.py: np.random.seed(seed) is unconditional
ReseedAlways(gen, seed) == np_random_seed(gen, seed)

\* seeding unconditionally, seed=None read as the Brownian routines' default
ReseedWithDefault(gen, seed) ==
    np_random_seed(gen, IF seed # None THEN seed ELSE DefaultSeed)

\* fbm.py: if seed is not None: np.random.seed(seed)
ReseedIfGiven(gen, seed) == IF seed # None THEN np_random_seed(gen, seed) ELSE {gen}

\* np.random.normal(size=(n, m)) drawn from gen, filled row by row
np_random_normal(gen, n, m) ==
    [i \in 1..n |-> [j \in 1..m |-> Normal(gen.seed, gen.pos + (i - 1) * m + j)]]

\* the generator after k variates were drawn
Advance(gen, k) == [gen EXCEPT !.pos = @ + k]

\* np.linspace(start, stop, num): numerators over the denominator num - 1
linspace(start, stop, num) ==
    [k \in 1..num |-> start * (num - 1) + (k - 1) * (stop - start)]

RECURSIVE ColSum(_, _, _)
ColSum(m, i, j) == IF i = 0 THEN 0 ELSE m[i][j] + ColSum(m, i - 1, j)

\* np.cumsum(m, axis=0)
cumsum0(m) == [i \in 1..Len(m) |-> [j \in 1..Len(m[1]) |-> ColSum(m, i, j)]]

\* the starting row put after the last row instead of before the first
insert_row_last(m, zero) == m \o <<[j \in 1..Len(m[1]) |-> zero]>>

\* np.insert(m, 0, zero, axis=0)
insert_row0(m, zero) == <<[j \in 1..Len(m[1]) |-> zero]>> \o m

\* m.T
Transpose(m) == [i \in 1..Len(m[1]) |-> [j \in 1..Len(m) |-> m[j][i]]]

\* np.tile(v, (n, 1))
tile(v, n) == [i \in 1..n |-> v]

NoResult == [status |-> "none", tab_t |-> <<>>, paths |-> <<>>]

CallRecord(fn, args, seed, g0, k) ==
    [fn |-> fn, args |-> args, seed |-> seed,
     first |-> g0.pos, count |-> k,
     \* the generator was not already in the state np.random.seed(seed) leaves
     dirty |-> (seed = None \/ rng # [seed |-> seed, pos |-> 0])]

(***************************************************************************)
(* simulate_brownian_motion(T, n_steps, n_mc, seed).  Path values are in   *)
(* units of sqrt(dt).                                                      *)
(***************************************************************************)
BrownianPaths(g0, n_steps, n_mc) ==
    LET increments == np_random_normal(g0, n_steps, n_mc)
        bm_paths == cumsum0(increments)
    IN insert_row0(bm_paths, 0)

simulate_brownian_motion(T, n_steps, n_mc, seed) ==
    \E g0 \in ReseedAlways(rng, seed) :
        /\ rng' = Advance(g0, n_steps * n_mc)
        /\ call' = CallRecord("bm", <<T, n_steps, n_mc>>, seed, g0, n_steps * n_mc)
        /\ res' = [status |-> "ok",
                   tab_t |-> linspace(0, T, n_steps + 1),
                   paths |-> BrownianPaths(g0, n_steps, n_mc)]
        /\ cov_arg' = <<>>
        /\ UNCHANGED <<lapackChecksNaN, kern, mix>>

(***************************************************************************)
(* simulate_brownian_bridge(a, b, t0, t1, n_steps, n_mc, seed).            *)
(* An entry x*sqrt(dt) + y is kept as [rnd |-> x*n*T, det |-> y*n*T]:      *)
(* the factor (tab_t - t0)/T is the fraction (tab_t[k] - n*t0) / (n*T).    *)
(***************************************************************************)
\* tab_t / T in place of (tab_t - t0) / T
BridgeFractionFromZero(tab_t, k, t0, n_steps) == tab_t[k]

BridgeFraction(tab_t, k, t0, n_steps) == tab_t[k] - n_steps * t0

BridgePaths(g0, a, b, t0, t1, n_steps, n_mc) ==
    LET T == t1 - t0
        tab_t == linspace(t0, t1, n_steps + 1)
        bm_paths == BrownianPaths(g0, n_steps, n_mc)
        last == bm_paths[n_steps + 1]
    IN [k \in 1..(n_steps + 1) |-> [j \in 1..n_mc |->
          LET f == BridgeFraction(tab_t, k, t0, n_steps)
          IN [rnd |-> n_steps * T * bm_paths[k][j] - f * last[j],
              det |-> f * (b - a) + n_steps * T * a]]]

simulate_brownian_bridge(a, b, t0, t1, n_steps, n_mc, seed) ==
    \E g0 \in ReseedAlways(rng, seed) :
        /\ rng' = Advance(g0, n_steps * n_mc)
        /\ call' = CallRecord("bridge", <<a, b, t0, t1, n_steps, n_mc>>, seed, g0,
                              n_steps * n_mc)
        /\ res' = [status |-> "ok",
                   tab_t |-> linspace(t0, t1, n_steps + 1),
                   paths |-> BridgePaths(g0, a, b, t0, t1, n_steps, n_mc)]
        /\ cov_arg' = <<>>
        /\ UNCHANGED <<lapackChecksNaN, kern, mix>>

(***************************************************************************)
(* generate_schauder_functions(j, t)[k] at the time tk/TimeDen, without    *)
(* its factor 2^(j/2) and scaled by 2^j * TimeDen.                         *)
(***************************************************************************)
schauder(j, k, tk) ==
    LET x == tk * Pow2(j)
        in_left  == x >= k * TimeDen /\ 2 * x < (2 * k + 1) * TimeDen
        in_right == 2 * x >= (2 * k + 1) * TimeDen /\ x < (k + 1) * TimeDen
    IN (IF in_left THEN x - k * TimeDen ELSE 0)
       + (IF in_right THEN (k + 1) * TimeDen - x ELSE 0)

RECURSIVE LevelSum(_, _, _, _)
\* sum over k' < k of schauder_functions[k'] * Z[2**j + k']   (Z is 0-indexed in the code)
LevelSum(Z, j, k, tk) ==
    IF k = 0 THEN 0
    ELSE LevelSum(Z, j, k - 1, tk) + schauder(j, k - 1, tk) * Z[Pow2(j) + (k - 1) + 1]

(***************************************************************************)
(* simulate_brownian_levy_construction(t, L, seed).  The value at one time *)
(* is kept as <<t*Z[0], level 0 sum, ..., level L sum>>.                   *)
(***************************************************************************)
LevyValues(g0, t, L) ==
    LET N_L == Pow2(L + 1)
        Z == np_random_normal(g0, 1, N_L)[1]
    IN [i \in 1..Len(t) |->
          <<t[i] * Z[1]>> \o [j1 \in 1..(L + 1) |-> LevelSum(Z, j1 - 1, Pow2(j1 - 1), t[i])]]

simulate_brownian_levy_construction(t, L, seed) ==
    \E g0 \in ReseedAlways(rng, seed) :
        /\ rng' = Advance(g0, Pow2(L + 1))
        /\ call' = CallRecord("levy", <<t, L>>, seed, g0, Pow2(L + 1))
        /\ res' = [status |-> "ok", tab_t |-> <<>>, paths |-> LevyValues(g0, t, L)]
        /\ cov_arg' = <<>>
        /\ UNCHANGED <<lapackChecksNaN, kern, mix>>

(***************************************************************************)
(* np.linalg.cholesky on the classes of the matrix.  potrf walks the lower *)
(* triangle; a pivot <= 0 makes it fail (LinAlgError).  A NaN pivot fails  *)
(* the test "pivot <= 0": reference LAPACK and MKL test for NaN as well,   *)
(* OpenBLAS's own potrf does not and returns a factor full of NaN.  A      *)
(* matrix of finite positive entries built from the kernel with H in (0,1) *)
(* is a covariance matrix of distinct times and is taken to factor.        *)
(***************************************************************************)
cholesky(a, checksNaN) ==
    LET n == Len(a)
        undefined == \E i \in 1..n : \E j \in 1..i : a[i][j].cls \in {"nan", "pinf"}
    IN IF a[1][1].cls \in {"zero", "neg", "ninf"} THEN "LinAlgError"
       ELSE IF undefined THEN (IF checksNaN THEN "LinAlgError" ELSE "nan_factor")
       ELSE IF \E i \in 1..n : a[i][i].cls # "pos" THEN "LinAlgError"
       ELSE "factor"

\* a path value sum_k L[i][k] * z[k][j] is kept as the variates it combines
FZero == [nan |-> FALSE, lin |-> <<>>]
FNaN == [nan |-> TRUE, lin |-> <<>>]

\* L @ z for the lower-triangular factor L
matmul_factor(factor, z) ==
    [i \in 1..Len(z) |-> [j \in 1..Len(z[1]) |->
        IF factor = "nan_factor" THEN FNaN
        ELSE [nan |-> FALSE, lin |-> [k \in 1..i |-> z[k][j]]]]]

\* covariance_levy_fbm(u, v, H) on two matrices of times, entry by entry
covariance_matrix(u, v, H) ==
    [i \in 1..Len(u) |-> [j \in 1..Len(u[1]) |-> covariance_levy_fbm(u[i][j], v[i][j], H)]]

\* the kernel applied to (u, u) instead of (u, u.T)
FbmCovarianceNoTranspose(t, H, n_steps) ==
    LET tab_t == linspace(0, t, n_steps + 1)
        u == Transpose(tile(Tail(tab_t), n_steps))
    IN covariance_matrix(u, u, H)

\* lines 81-82 and 84: the matrix of the kernel on the interior grid times
FbmCovariance(t, H, n_steps) ==
    LET tab_t == linspace(0, t, n_steps + 1)
        u == Transpose(tile(Tail(tab_t), n_steps))
    IN covariance_matrix(u, Transpose(u), H)

(***************************************************************************)
(* simulate_fbm(t, H, n_steps, n_paths, seed)                              *)
(***************************************************************************)
simulate_fbm(t, H, n_steps, n_paths, seed) ==
    \E g0 \in ReseedIfGiven(rng, seed) :
        LET tab_t == linspace(0, t, n_steps + 1)
            z == np_random_normal(g0, n_steps, n_paths)
            c == FbmCovariance(t, H, n_steps)
            L == cholesky(c, lapackChecksNaN)
        IN /\ (seed = None) => (g0.pos + n_steps * n_paths <= MaxDraws)
           /\ rng' = Advance(g0, n_steps * n_paths)
           /\ call' = CallRecord("fbm", <<t, H, n_steps, n_paths>>, seed, g0,
                                 n_steps * n_paths)
           /\ cov_arg' = c
           /\ res' = IF L = "LinAlgError"
                     THEN [status |-> "LinAlgError", tab_t |-> <<>>, paths |-> <<>>]
                     ELSE [status |-> "ok", tab_t |-> tab_t,
                           paths |-> insert_row0(matmul_factor(L, z), FZero)]
           /\ UNCHANGED <<lapackChecksNaN, kern, mix>>

(***************************************************************************)
(* gaussian_mixture_pdf.  Arrays of means and covariances are kept as      *)
(* their shapes; x is n_samples points of the components' dimension; the   *)
(* values scipy's multivariate_normal.pdf returns are an input (dens).     *)
(***************************************************************************)
Dims == {1, 2}
WeightValues == {-5, 5, 10, 15}

WeightSeqs == UNION {[1..k -> WeightValues] : k \in 1..MaxComponents}
ShapesOfRank(r) == [1..r -> Dims]
MeansShapes == UNION {ShapesOfRank(r) : r \in 0..3}
CovShapes == UNION {ShapesOfRank(r) : r \in 0..4}

atleast_2d(shape) ==
    IF Len(shape) = 0 THEN <<1, 1>>
    ELSE IF Len(shape) = 1 THEN <<1, shape[1]>>
    ELSE shape

atleast_3d(shape) ==
    IF Len(shape) = 0 THEN <<1, 1, 1>>
    ELSE IF Len(shape) = 1 THEN <<1, shape[1], 1>>
    ELSE IF Len(shape) = 2 THEN <<shape[1], shape[2], 1>>
    ELSE shape

\* the shape checks made before the weight check
ValidationShapesFirst(weights, means, covariances) ==
    IF Len(means) # 2 \/ means[1] # Len(weights) THEN "ValueError: means"
    ELSE IF Len(covariances) # 3 \/ covariances[1] # Len(weights)
         THEN "ValueError: covariances"
    ELSE IF SumSeq(weights) # 10 THEN "ValueError: weights"
    ELSE "ok"

\* lines 35-47 on the coerced arrays: the first check that fails
Validation(weights, means, covariances) ==
    IF SumSeq(weights) # 10 THEN "ValueError: weights"
    ELSE IF Len(means) # 2 \/ means[1] # Len(weights) THEN "ValueError: means"
    ELSE IF Len(covariances) # 3 \/ covariances[1] # Len(weights)
         THEN "ValueError: covariances"
    ELSE "ok"

\* multivariate_normal.pdf(x, mean=means[i], cov=covariances[i]) rejects a
\* two-dimensional cov whose shape is not (dim, dim), dim = mean.size
ScipyAccepts(means, covariances) ==
    covariances[2] = means[2] /\ covariances[3] = means[2]

RECURSIVE MixtureSum(_, _, _, _)
\* pdf_values[s] after the first i components were added (in tenths)
MixtureSum(weights, dens, i, s) ==
    IF i = 0 THEN 0
    ELSE MixtureSum(weights, dens, i - 1, s) + weights[i] * dens[i][s]

MixRecord(ns, w, m, c, status, evaluated, pdf) ==
    [n_samples |-> ns, weights |-> w, means |-> m, covariances |-> c,
     status |-> status, evaluated |-> evaluated, pdf_values |-> pdf]

gaussian_mixture_pdf(ns, w, m, c) ==
    LET means == atleast_2d(m)
        covariances == atleast_3d(c)
        v == Validation(w, means, covariances)
    IN /\ IF v # "ok"
          THEN mix' = MixRecord(ns, w, m, c, v, 0, <<>>)
          ELSE IF ~ScipyAccepts(means, covariances)
          THEN mix' = MixRecord(ns, w, m, c, "ValueError: scipy", 0, <<>>)
          ELSE \E dens \in [1..Len(w) -> [1..ns -> 0..MaxDens]] :
                 mix' = MixRecord(ns, w, m, c, "ok", Len(w),
                                  [s \in 1..ns |-> MixtureSum(w, dens, Len(w), s)])
       /\ UNCHANGED <<rng, lapackChecksNaN, call, res, cov_arg, kern>>

(***************************************************************************)
(* A direct call of covariance_levy_fbm on scalars.                        *)
(***************************************************************************)
CallCovariance(u, v, H) ==
    /\ kern' = [called |-> TRUE, u |-> u, v |-> v, H |-> H,
                value |-> covariance_levy_fbm(u, v, H)]
    /\ UNCHANGED <<rng, lapackChecksNaN, call, res, cov_arg, mix>>

(***************************************************************************)
(* The process after import: the generator seeded from OS entropy, nothing *)
(* called yet.                                                             *)
(***************************************************************************)
InitProcess ==
    /\ rng \in [seed : EntropySeeds, pos : {0}]
    /\ lapackChecksNaN \in BOOLEAN
    /\ call = [fn |-> "none", args |-> <<>>, seed |-> None, first |-> 0, count |-> 0,
               dirty |-> FALSE]
    /\ res = NoResult
    /\ cov_arg = <<>>
    /\ kern = [called |-> FALSE, u |-> 0, v |-> 0, H |-> 5,
               value |-> [lo |-> 0, hi |-> 0, H |-> 5, cls |-> "nan"]]

Init ==
    /\ InitProcess
    /\ mix = MixRecord(1, <<10>>, <<1, 1>>, <<1, 1, 1>>, "none", 0, <<>>)

\* the arguments of the one call of gaussian_mixture_pdf a behaviour makes
InitMix ==
    /\ InitProcess
    /\ \E ns \in 1..MaxSamples, w \in WeightSeqs, m \in MeansShapes, c \in CovShapes :
          mix = MixRecord(ns, w, m, c, "none", 0, <<>>)

Horizons == {2}
FbmHorizons == {0, 2}
FbmHursts == {-1, 0, 3}
BridgeArgs == {<<0, 0, 0, 1>>, <<1, 2, 1, 3>>}     \* <<a, b, t0, t1>>
LevyTimes == [k \in 1..(TimeDen + 1) |-> k - 1]    \* the grid 0, 1/TimeDen, ..., 1
SeedArgs == Seeds \cup {None}
Steps == 1..MaxSteps
Paths == 1..MaxPaths

CallBrownianMotion ==
    \E T \in Horizons, n \in Steps, m \in Paths, seed \in SeedArgs :
        simulate_brownian_motion(T, n, m, seed)

CallBrownianBridge ==
    \E ab \in BridgeArgs, n \in Steps, m \in Paths, seed \in SeedArgs :
        simulate_brownian_bridge(ab[1], ab[2], ab[3], ab[4], n, m, seed)

CallLevyConstruction ==
    \E L \in 0..MaxLevel, seed \in SeedArgs :
        simulate_brownian_levy_construction(LevyTimes, L, seed)

CallFbm ==
    \E t \in FbmHorizons, H \in FbmHursts, n \in Steps, m \in Paths, seed \in SeedArgs :
        simulate_fbm(t, H, n, m, seed)

CallKernel ==
    \E u \in 0..MaxTime, v \in 0..MaxTime, H \in Hursts : CallCovariance(u, v, H)

CallMixture ==
    /\ mix.status = "none"
    /\ gaussian_mixture_pdf(mix.n_samples, mix.weights, mix.means, mix.covariances)

NextSim == CallBrownianMotion \/ CallBrownianBridge \/ CallLevyConstruction \/ CallFbm
NextKernel == CallKernel
NextMix == CallMixture
Next == NextSim \/ NextKernel \/ NextMix

Spec == Init /\ [][Next]_vars
SpecSim == Init /\ [][NextSim]_vars
SpecKernel == Init /\ [][NextKernel]_vars
SpecMix == InitMix /\ [][NextMix]_vars

(***************************************************************************)
(* Properties of the simulators (SpecSim).                                 *)
(***************************************************************************)
StepsOf(c) == IF c.fn = "bm" THEN c.args[2] ELSE IF c.fn = "fbm" THEN c.args[3] ELSE c.args[5]
PathsOf(c) == IF c.fn = "bm" THEN c.args[3] ELSE IF c.fn = "fbm" THEN c.args[4] ELSE c.args[6]

\* C1: whenever simulate_fbm or simulate_brownian_motion returns, the time grid has
\* n_steps + 1 points, the path matrix has n_steps + 1 rows of one entry per path,
\* and every entry of row 0 is the inserted constant 0, whatever was drawn.
C1_PathsStartAtZero ==
    (call.fn \in {"bm", "fbm"} /\ res.status = "ok") =>
        /\ Len(res.tab_t) = StepsOf(call) + 1
        /\ Len(res.paths) = StepsOf(call) + 1
        /\ \A i \in 1..Len(res.paths) : Len(res.paths[i]) = PathsOf(call)
        /\ \A j \in 1..PathsOf(call) :
              res.paths[1][j] = (IF call.fn = "bm" THEN 0 ELSE FZero)

\* a Brownian motion of the largest shape whose first increments are not all 0
C1_Witness ==
    /\ call.fn = "bm" /\ res.status = "ok"
    /\ StepsOf(call) = MaxSteps /\ PathsOf(call) = MaxPaths
    /\ \E j \in 1..MaxPaths : res.paths[2][j] # 0

\* what a call returns when the generator is freshly seeded with the call's seed
SeededReference(c) ==
    LET fresh == [seed |-> c.seed, pos |-> 0]
        a == c.args
    IN IF c.fn = "bm"
       THEN [status |-> "ok", tab_t |-> linspace(0, a[1], a[2] + 1),
             paths |-> BrownianPaths(fresh, a[2], a[3])]
       ELSE IF c.fn = "bridge"
       THEN [status |-> "ok", tab_t |-> linspace(a[3], a[4], a[5] + 1),
             paths |-> BridgePaths(fresh, a[1], a[2], a[3], a[4], a[5], a[6])]
       ELSE IF c.fn = "levy"
       THEN [status |-> "ok", tab_t |-> <<>>, paths |-> LevyValues(fresh, a[1], a[2])]
       ELSE LET L == cholesky(FbmCovariance(a[1], a[2], a[3]), lapackChecksNaN)
            IN IF L = "LinAlgError"
               THEN [status |-> "LinAlgError", tab_t |-> <<>>, paths |-> <<>>]
               ELSE [status |-> "ok", tab_t |-> linspace(0, a[1], a[3] + 1),
                     paths |-> insert_row0(
                         matmul_factor(L, np_random_normal(fresh, a[3], a[4])), FZero)]

\* C2: a simulator called with a seed returns what its arguments and that seed
\* determine (the result of the same call on a freshly seeded generator), whatever
\* calls came before and wherever they left the process-wide generator.
C2_SeededCallsRepeat ==
    (call.fn # "none" /\ call.seed # None) => res = SeededReference(call)

\* a seeded call made while the generator was in another state than its seed's start
C2_Witness ==
    /\ call.fn = "bridge" /\ call.seed = DefaultSeed /\ call.dirty
    /\ rng.pos = MaxSteps * MaxPaths

\* C5: the first row of a Brownian bridge is a and its last row is b in every
\* column, with no contribution of the variates drawn.
C5_BridgePinned ==
    (call.fn = "bridge") =>
        LET a == call.args[1]
            b == call.args[2]
            nT == call.args[5] * (call.args[4] - call.args[3])
        IN \A j \in 1..call.args[6] :
              /\ res.paths[1][j] = [rnd |-> 0, det |-> nT * a]
              /\ res.paths[call.args[5] + 1][j] = [rnd |-> 0, det |-> nT * b]

\* a bridge between different levels, not starting at time 0, with a random interior
C5_Witness ==
    /\ call.fn = "bridge"
    /\ call.args[1] # call.args[2] /\ call.args[3] # 0 /\ call.args[5] >= 2
    /\ \E j \in 1..call.args[6] : res.paths[2][j].rnd # 0

\* the covariance matrix is not positive definite, or holds an undefined entry
NotPositiveDefinite(a) ==
    \/ \E i \in 1..Len(a) : a[i][i].cls # "pos"
    \/ \E i \in 1..Len(a) : \E j \in 1..Len(a) : a[i][j].cls = "nan"

\* C7: when the covariance matrix is not positive definite or is undefined,
\* simulate_fbm ends in the Cholesky error and returns nothing; no returned path
\* matrix holds a NaN.
C7_BadMatrixRaises ==
    (call.fn = "fbm") =>
        /\ NotPositiveDefinite(cov_arg) =>
              (res.status = "LinAlgError" /\ res.tab_t = <<>> /\ res.paths = <<>>)
        /\ res.status = "ok" =>
              \A i \in 1..Len(res.paths) : \A j \in 1..Len(res.paths[i]) :
                  ~res.paths[i][j].nan

\* C9: the matrix handed to the Cholesky factorization is n_steps by n_steps, its
\* entry (i, j) is the kernel at the interior grid times (i*t/n_steps, j*t/n_steps),
\* and it is symmetric.
C9_MatrixIsKernelOnGrid ==
    (call.fn = "fbm") =>
        LET t == call.args[1]
            H == call.args[2]
            n == call.args[3]
        IN /\ Len(cov_arg) = n
           /\ \A i \in 1..n : Len(cov_arg[i]) = n
           /\ \A i \in 1..n : \A j \in 1..n :
                 /\ cov_arg[i][j] = covariance_levy_fbm(i * t, j * t, H)
                 /\ cov_arg[i][j] = cov_arg[j][i]

\* a matrix with off-diagonal entries of distinct positive times
C9_Witness ==
    /\ call.fn = "fbm" /\ call.args[3] = MaxSteps /\ call.args[1] > 0
    /\ call.args[2] \in 1..9
    /\ cov_arg[1][2].lo = call.args[1] /\ cov_arg[1][2].hi = 2 * call.args[1]

\* how one call moves the generator
GeneratorStep ==
    /\ call'.count = (IF call'.fn = "levy" THEN Pow2(call'.args[2] + 1)
                      ELSE StepsOf(call') * PathsOf(call'))
    /\ rng'.pos = call'.first + call'.count
    /\ IF call'.fn = "fbm" /\ call'.seed = None
       THEN /\ rng'.seed = rng.seed
            /\ call'.first = rng.pos
            /\ rng' # rng
            /\ (call.fn = "fbm" /\ call.seed = None) =>
                  call'.first = call.first + call.count
            /\ (res'.status = "ok" /\ ~res'.paths[2][1].nan) =>
                  \A i \in 1..StepsOf(call') : \A j \in 1..PathsOf(call') :
                      res'.paths[i + 1][j].lin[i]
                          = Normal(rng.seed, rng.pos + (i - 1) * PathsOf(call') + j)
       ELSE /\ call'.first = 0
            /\ IF call'.seed = None THEN rng'.seed \in EntropySeeds
                                    ELSE rng'.seed = call'.seed

\* C10 (as amended): simulate_fbm with seed=None keeps the seeding of the latest
\* seeding call and draws the next n_steps*n_paths variates from the current
\* position, also when the factorization then fails, so it always moves the
\* generator and consecutive unseeded calls use consecutive stretches; every other
\* call leaves the generator where its own seeding and its own draws put it.
C10_GeneratorLaw == [][GeneratorStep]_vars

\* C10 (as stated): in addition every call, seeded or not, changes the generator.
C10_EveryCallChangesGenerator == [][GeneratorStep /\ rng' # rng]_vars

\* an unseeded fbm call that returned, continuing a stream the default seed started
C10_Witness ==
    /\ call.fn = "fbm" /\ call.seed = None /\ call.first > 0
    /\ rng.seed = DefaultSeed /\ res.status = "ok"

(***************************************************************************)
(* Properties of covariance_levy_fbm (SpecKernel).                         *)
(***************************************************************************)
\* C6: for H in (0,1) the kernel is 0 whenever one of its two times is 0, the
\* case of both times 0 included.
C6_KernelZeroAtZero ==
    (kern.called /\ kern.H \in 1..9 /\ (kern.u = 0 \/ kern.v = 0)) =>
        kern.value.cls = "zero"

(***************************************************************************)
(* Properties of gaussian_mixture_pdf (SpecMix).                           *)
(***************************************************************************)
\* the number of entries the caller's array supplies along its leading dimension
Entries(shape) == IF Len(shape) = 0 THEN 1 ELSE shape[1]

\* C3: weights that do not sum to 1 end the call in the weight error, with no
\* density returned and no component density evaluated, also when the shapes of
\* means or covariances are wrong as well.
C3_WeightErrorFirst ==
    (mix.status # "none" /\ SumSeq(mix.weights) # 10) =>
        /\ mix.status = "ValueError: weights"
        /\ mix.evaluated = 0
        /\ mix.pdf_values = <<>>

\* weights summing to 0.5 together with means of the wrong leading dimension
C3_Witness ==
    /\ mix.status = "ValueError: weights"
    /\ SumSeq(mix.weights) = 5
    /\ atleast_2d(mix.means)[1] # Len(mix.weights)

\* C4: with weights summing to 1, means or covariances whose leading dimension is
\* not the number of weights end the call in a ValueError, whatever the rank of the
\* arrays the caller passed.
C4_MismatchRaises ==
    (/\ mix.status # "none"
     /\ SumSeq(mix.weights) = 10
     /\ \/ Entries(mix.means) # Len(mix.weights)
        \/ Entries(mix.covariances) # Len(mix.weights)) =>
        mix.status \in {"ValueError: means", "ValueError: covariances", "ValueError: scipy"}

\* C8: every density value returned for inputs that pass the validation is
\* non-negative, the component densities being non-negative.
C8_MixtureNonNegative ==
    (mix.status = "ok") =>
        \A s \in 1..Len(mix.pdf_values) : mix.pdf_values[s] >= 0

====
